---- MODULE Spec2Model ----
(***************************************************************************)
(* A model of recipes/LJSpeech/TTS/ljspeech_prepare.py: the preparation of *)
(* the LJSpeech manifests (prepare_ljspeech, skip, split_sets,             *)
(* prepare_json, create_symbol_file) run against a file system.            *)
(*                                                                         *)
(* Strings are sequences of fragments.  Every fragment that could hold or  *)
(* be part of the substring "train" is a single character, so that         *)
(* Python's `"train" in json_file` is a real substring search here.        *)
(* Row indices are 0-based as in the code: index k is meta_csv[k + 1].     *)
(***************************************************************************)
EXTENDS Integers, Sequences, FiniteSets, TLC

VARIABLES
    fs,                 \* the file system: path -> content, Absent when there is none
    pc,                 \* position of the running prepare_ljspeech call
    args,               \* the arguments of the running call
    conf,               \* prepare_ljspeech: conf
    durations_folder,   \* prepare_ljspeech: durations_folder
    meta_csv,           \* split_sets: the parsed catalog (list of rows)
    index_for_sessions, \* split_sets: the index pools, one per session group
    session_len,        \* split_sets: the group sizes taken before splitting
    data_split,         \* split_sets: split name -> list of row indices
    i,                  \* split_sets: position in splits   (1-based here)
    j,                  \* split_sets: position in the groups (1-based here)
    outcome,            \* how the call ended: a return or the exception raised
    writer,             \* history: manifest path -> conf of the call that wrote it
    run,                \* history: the files at the call's start, its writes, its guard
    prev                \* history: conf of the call before, if it ran to completion
                        \*          and no file has changed since

vars == <<fs, pc, args, conf, durations_folder, meta_csv, index_for_sessions,
          session_len, data_split, i, j, outcome, writer, run, prev>>

locals == <<meta_csv, index_for_sessions, session_len, data_split, i, j>>

----------------------------------------------------------------------------
(* Bounds *)

MaxRows == 3

----------------------------------------------------------------------------
(* Module constants, lines 24-30 *)

OPT_FILE == <<"opt_ljspeech_prepare.pkl">>
METADATA_CSV == <<"metadata.csv">>
TRAIN_JSON == <<"t", "r", "a", "i", "n", ".json">>
VALID_JSON == <<"valid.json">>
TEST_JSON == <<"test.json">>
WAVS == <<"wavs">>
DURATIONS == <<"durations">>
LEXICON == <<"lexicon">>
TRAIN == <<"t", "r", "a", "i", "n">>

\* File contents.  A file is absent, a directory, or holds what was written.
Absent == [kind |-> "none"]
Directory == [kind |-> "dir"]
CsvFile(rows) == [kind |-> "csv", rows |-> rows]
JsonFile(d) == [kind |-> "json", json |-> d]
PklFile(obj) == [kind |-> "pkl", obj |-> obj]
TextFile(symbols) == [kind |-> "text", symbols |-> symbols]

\* Python's None, and a local that is not bound yet
None == [none |-> TRUE]

\* os.path.join(a, b)
Join(a, b) == a \o <<"/">> \o b

\* Python's `needle in hay` on strings
IsSubstring(needle, hay) ==
    \E k \in 0..(Len(hay) - Len(needle)) :
        SubSeq(hay, k + 1, k + Len(needle)) = needle

Min(a, b) == IF a < b THEN a ELSE b

\* s[0:n] and what `del s[0:n]` leaves, for n >= 0
Take(s, n) == SubSeq(s, 1, Min(n, Len(s)))
Drop(s, n) == SubSeq(s, Min(n, Len(s)) + 1, Len(s))

RECURSIVE Sum(_)
Sum(s) == IF s = <<>> THEN 0 ELSE Head(s) + Sum(Tail(s))

Range(s) == {s[k] : k \in DOMAIN s}

----------------------------------------------------------------------------
(* The catalog: metadata.csv, one row item_id|normalized|raw *)

ItemNo == <<"0001", "0002", "0003", "0004", "0005", "0006">>

Hello == <<"H", "e", "l", "l", "o">>
World == <<"W", "o", "r", "l", "d">>

\* str.lower() on one character
LowerChar(c) ==
    CASE c = "H" -> "h"
      [] c = "W" -> "w"
      [] OTHER -> c

Lower(s) == [k \in DOMAIN s |-> LowerChar(s[k])]

RawLabel(k) == IF k % 2 = 0 THEN Hello ELSE World

\* row k (0-based) of a catalog whose rows have the session prefixes ss
Row(sess, k) == << <<sess, "-", ItemNo[k + 1]>>, Lower(RawLabel(k)), RawLabel(k) >>

Catalog(ss) == [k \in 1..Len(ss) |-> Row(ss[k], k - 1)]

SeqsUpTo(S, n) == UNION {[1..m -> S] : m \in 0..n}

\* item_id.split("-")[0]
SessionOf(id) ==
    LET dash == {k \in DOMAIN id : id[k] = "-"}
        first == IF dash = {} THEN Len(id) + 1
                 ELSE CHOOSE k \in dash : \A m \in dash : k <= m
    IN SubSeq(id, 1, first - 1)

----------------------------------------------------------------------------
(* The file system *)

\* os.path.exists(p), os.path.isfile(p)
PathExists(p) == fs[p].kind # "none"
IsFile(p) == fs[p].kind \notin {"none", "dir"}

\* load_pkl(file), load_data_json(file): what was saved, read back
LoadPkl(p) == fs[p].obj
LoadDataJson(p) == fs[p].json

\* open(p, "w") followed by a write of content c
WriteFile(p, c) == [fs EXCEPT ![p] = c]

----------------------------------------------------------------------------
(* skip, lines 139-174 *)

split_files(split) ==
    CASE split = "train" -> TRAIN_JSON
      [] split = "valid" -> VALID_JSON
      [] split = "test" -> TEST_JSON

\* skip without its lines 172-173: no persisted record, and still skipped
SkipWithoutRecord(splits, save_folder, cnf) ==
    LET files_ok == \A k \in DOMAIN splits :
                        IsFile(Join(save_folder, split_files(splits[k])))
        save_opt == Join(save_folder, OPT_FILE)
    IN  IF files_ok
        THEN IF IsFile(save_opt)
             THEN LoadPkl(save_opt) = cnf
             ELSE TRUE
        ELSE FALSE

skip(splits, save_folder, cnf) ==
    LET files_ok == \A k \in DOMAIN splits :
                        IsFile(Join(save_folder, split_files(splits[k])))
        save_opt == Join(save_folder, OPT_FILE)
    IN  IF files_ok
        THEN IF IsFile(save_opt)
             THEN LoadPkl(save_opt) = cnf
             ELSE FALSE
        ELSE FALSE

----------------------------------------------------------------------------
(* split_sets, lines 177-241 *)

\* the grouping loop, lines 203-215, from row k on
RECURSIVE GroupLoop(_, _, _, _, _)
GroupLoop(csv, k, groups, session_id_start, index_this_session) ==
    IF k >= Len(csv) THEN groups
    ELSE LET session_id == SessionOf(csv[k + 1][1]) IN
         IF session_id = session_id_start
         THEN LET this == Append(index_this_session, k) IN
              GroupLoop(csv, k + 1,
                        IF k = Len(csv) - 1 THEN Append(groups, this) ELSE groups,
                        session_id_start, this)
         ELSE GroupLoop(csv, k + 1, Append(groups, index_this_session),
                        session_id, <<k>>)

GroupSessions(csv) == GroupLoop(csv, 0, <<>>, <<"LJ001">>, <<>>)

\* the share rounded up instead of truncated
NSntsRoundedUp(len, ratio, ratios) ==
    (len * ratio + Sum(ratios) - 1) \div Sum(ratios)

\* int(session_len[j] * split_ratio[i] / sum(split_ratio)), weights >= 0
NSnts(len, ratio, ratios) == (len * ratio) \div Sum(ratios)

\* the orders random.shuffle can leave a list in
Perms(n) == {f \in [1..n -> 1..n] : \A a, b \in 1..n : f[a] = f[b] => a = b}
Shuffles(s) == {[k \in DOMAIN s |-> s[f[k]]] : f \in Perms(Len(s))}

----------------------------------------------------------------------------
(* prepare_json, lines 244-281 *)

\* json_dict[id] = entry: a dict keeps insertion order, a known key its place
DictSet(d, id, entry) ==
    IF \E k \in DOMAIN d : d[k].id = id
    THEN [k \in DOMAIN d |-> IF d[k].id = id THEN entry ELSE d[k]]
    ELSE Append(d, entry)

Entry(row, json_file, wavs_folder, dur_folder) ==
    [id |-> row[1],
     wav |-> Join(wavs_folder, row[1] \o <<".wav">>),
     label |-> row[3],
     segment |-> IsSubstring(TRAIN, json_file),
     durations |-> IF dur_folder # None
                   THEN [path |-> Join(dur_folder.path, row[1] \o <<".npy">>)]
                   ELSE None]

RECURSIVE JsonDict(_, _, _, _, _, _)
JsonDict(seg_lst, json_file, wavs_folder, csv, dur_folder, d) ==
    IF seg_lst = <<>> THEN d
    ELSE JsonDict(Tail(seg_lst), json_file, wavs_folder, csv, dur_folder,
                  DictSet(d, csv[Head(seg_lst) + 1][1],
                          Entry(csv[Head(seg_lst) + 1], json_file,
                                wavs_folder, dur_folder)))

----------------------------------------------------------------------------
(* create_symbol_file, lines 283-295 *)

\* the labels taken as they are, not lowercased
CharSetAsWritten(data) == UNION {Range(data[k].label) : k \in DOMAIN data}

\* the set char_set after the loop over the labels of data
CharSet(data) == UNION {Range(Lower(data[k].label)) : k \in DOMAIN data}

----------------------------------------------------------------------------
(* The folders and the arguments the calls are made with *)

DataFolder == <<"data">>
OtherDataFolder == <<"data2">>
SaveFolder == <<"out">>
TrainSaveFolder == <<"exp", "_", "t", "r", "a", "i", "n">>
SaveFolders == {SaveFolder, TrainSaveFolder}

SaveFiles == {TRAIN_JSON, VALID_JSON, TEST_JSON, OPT_FILE, LEXICON}
DataFiles == {METADATA_CSV, WAVS, DURATIONS}

AllPaths == {Join(DataFolder, f) : f \in DataFiles}
            \cup {Join(sf, f) : sf \in SaveFolders, f \in SaveFiles}

SplitNames == {"train", "valid", "test"}

\* every list of distinct split names: the subsets of SplitNames in any order
SplitLists == {s \in SeqsUpTo(SplitNames, 3) :
                  \A a, b \in DOMAIN s : s[a] = s[b] => a = b}

Args(df, sf, spl, ratio, seed, skip_prep, kwargs) ==
    [data_folder |-> df, save_folder |-> sf, splits |-> spl,
     split_ratio |-> ratio, seed |-> seed, skip_prep |-> skip_prep,
     kwargs |-> kwargs]

\* conf, lines 78-84
Conf(a) ==
    [data_folder |-> a.data_folder, splits |-> a.splits,
     split_ratio |-> a.split_ratio, save_folder |-> a.save_folder,
     seed |-> a.seed]

NoLocals ==
    /\ meta_csv = <<>>
    /\ index_for_sessions = <<>>
    /\ session_len = <<>>
    /\ data_split = <<>>
    /\ i = 0
    /\ j = 0

NoCall ==
    /\ pc = "idle"
    /\ args = None
    /\ conf = None
    /\ durations_folder = None
    /\ outcome = "none"
    /\ NoLocals
    /\ writer = [p \in AllPaths |-> None]
    /\ run = [fs0 |-> fs, writes |-> 0, guard |-> "none"]
    /\ prev = None

----------------------------------------------------------------------------
(* prepare_ljspeech, lines 35-136 *)

\* a call ends, by a return or by an exception
Ends(how) ==
    /\ pc' = "returned"
    /\ outcome' = how

\* lines 73-106: seed, skip_prep, conf, the output paths, the durations.
\* random.seed(seed) fixes the shuffles of the call; they are taken here as
\* any order, the seed being any number.  os.makedirs(save_folder) makes the
\* folder, which the paths of its files stand for.
Start(a) ==
    /\ pc = "idle"
    /\ args' = a
    /\ run' = [fs0 |-> fs, writes |-> 0, guard |-> "none"]
    /\ UNCHANGED <<locals, writer, prev>>
    /\ IF a.skip_prep
       THEN /\ Ends("skip_prep")
            /\ UNCHANGED <<fs, conf, durations_folder>>
       ELSE /\ conf' = Conf(a)
            /\ pc' = "guard"
            /\ outcome' = "running"
            /\ IF "duration_link" \in a.kwargs
               THEN LET folder == Join(a.data_folder, DURATIONS) IN
                    /\ durations_folder' = [path |-> folder]
                    /\ IF ~PathExists(folder)
                       \* wget, unzip, mv: run unchecked, they may fail
                       THEN \E got \in {Absent, Directory} :
                                fs' = WriteFile(folder, got)
                       ELSE UNCHANGED fs
               ELSE /\ durations_folder' = None
                    /\ UNCHANGED fs

\* lines 108-111
Guard ==
    /\ pc = "guard"
    /\ IF skip(args.splits, args.save_folder, conf)
       THEN /\ Ends("skipped")
            /\ run' = [run EXCEPT !.guard = "skip"]
       ELSE /\ pc' = "check"
            /\ run' = [run EXCEPT !.guard = "proceed"]
            /\ UNCHANGED outcome
    /\ UNCHANGED <<fs, args, conf, durations_folder, locals, writer, prev>>

\* the first assertion alone
MetadataPresent(data_folder) == PathExists(Join(data_folder, METADATA_CSV))

\* the two assertions, lines 113-115, hold
FoldersPresent(data_folder) ==
    /\ PathExists(Join(data_folder, METADATA_CSV))
    /\ PathExists(Join(data_folder, WAVS))

CheckFolders ==
    /\ pc = "check"
    /\ IF FoldersPresent(args.data_folder)
       THEN pc' = "split" /\ UNCHANGED outcome
       ELSE Ends("AssertionError")
    /\ UNCHANGED <<fs, args, conf, durations_folder, locals, writer, run, prev>>

\* split_sets, lines 196-219: the catalog is read and grouped
SplitSetsEnter ==
    /\ pc = "split"
    /\ meta_csv' = fs[Join(args.data_folder, METADATA_CSV)].rows
    /\ index_for_sessions' = GroupSessions(meta_csv')
    /\ session_len' = [g \in DOMAIN index_for_sessions' |->
                          Len(index_for_sessions'[g])]
    /\ data_split' = <<>>
    /\ i' = 1
    /\ j' = 0
    /\ pc' = "outer"
    /\ UNCHANGED <<fs, args, conf, durations_folder, outcome, writer, run, prev>>

\* lines 220-221: the next split, or the return of line 241
SplitOuter ==
    /\ pc = "outer"
    /\ IF i > Len(args.splits)
       THEN /\ pc' = "train"
            /\ UNCHANGED <<data_split, j>>
       ELSE /\ data_split' = (args.splits[i] :> <<>>) @@ data_split
            /\ j' = 1
            /\ pc' = "inner"
    /\ UNCHANGED <<fs, args, conf, durations_folder, meta_csv,
                   index_for_sessions, session_len, i, outcome, writer, run, prev>>

\* lines 224-227 and 230-235: shuffle the pool, move its first n_snts
TakeShare(split, ratio) ==
    \E shuffled \in Shuffles(index_for_sessions[j]) :
        LET n_snts == NSnts(session_len[j], ratio, args.split_ratio) IN
        /\ data_split' = [data_split EXCEPT
                             ![split] = @ \o Take(shuffled, n_snts)]
        /\ index_for_sessions' = [index_for_sessions EXCEPT
                                     ![j] = Drop(shuffled, n_snts)]

\* lines 237 and 239: the pool is copied, and kept
TakeAll(split) ==
    /\ data_split' = [data_split EXCEPT ![split] = @ \o index_for_sessions[j]]
    /\ UNCHANGED index_for_sessions

\* lines 222-239: one session group for the split at hand
SplitInner ==
    /\ pc = "inner"
    /\ IF j > Len(index_for_sessions)
       THEN /\ i' = i + 1
            /\ pc' = "outer"
            /\ UNCHANGED <<index_for_sessions, data_split, j>>
       ELSE LET split == args.splits[i] IN
            /\ CASE split = "train" -> TakeShare(split, args.split_ratio[i])
                 [] split = "valid" ->
                        IF "test" \in Range(args.splits)
                        THEN TakeShare(split, args.split_ratio[i])
                        ELSE TakeAll(split)
                 [] split = "test" -> TakeAll(split)
            /\ j' = j + 1
            /\ UNCHANGED <<i, pc>>
    /\ UNCHANGED <<fs, args, conf, durations_folder, meta_csv, session_len,
                   outcome, writer, run, prev>>

\* prepare_json, lines 263-279, called for one split
PrepareJson(split) ==
    LET json_file == Join(args.save_folder, split_files(split))
        wavs_folder == Join(args.data_folder, WAVS)
        json_dict == JsonDict(data_split[split], json_file, wavs_folder,
                              meta_csv, durations_folder, <<>>)
    IN  /\ fs' = WriteFile(json_file, JsonFile(json_dict))
        /\ writer' = [writer EXCEPT ![json_file] = conf]
        /\ run' = [run EXCEPT !.writes = @ + 1]

\* lines 123-133: one of the three `if split in splits: prepare_json(...)`
Prepare(at, split, then) ==
    /\ pc = at
    /\ IF split \in Range(args.splits)
       THEN PrepareJson(split)
       ELSE UNCHANGED <<fs, writer, run>>
    /\ pc' = then
    /\ UNCHANGED <<args, conf, durations_folder, locals, outcome, prev>>

PrepareTrain == Prepare("train", "train", "valid")
PrepareValid == Prepare("valid", "valid", "test")
PrepareTest == Prepare("test", "test", "symbol")

\* lines 134-135 and create_symbol_file, lines 283-295
CreateSymbolFile ==
    /\ pc = "symbol"
    /\ LET lexicon_path == Join(args.save_folder, LEXICON)
           save_json_train == Join(args.save_folder, TRAIN_JSON)
       IN  IF "create_symbol_list" \notin args.kwargs \/ PathExists(lexicon_path)
           THEN /\ pc' = "save"
                /\ UNCHANGED <<fs, writer, run, outcome>>
           ELSE IF ~IsFile(save_json_train)
           \* load_data_json opens a file that is not there
           THEN /\ Ends("FileNotFoundError")
                /\ UNCHANGED <<fs, writer, run>>
           ELSE /\ fs' = WriteFile(lexicon_path,
                                   TextFile(CharSet(LoadDataJson(save_json_train))))
                /\ run' = [run EXCEPT !.writes = @ + 1]
                /\ pc' = "save"
                /\ UNCHANGED <<writer, outcome>>
    /\ UNCHANGED <<args, conf, durations_folder, locals, prev>>

\* the return without the save of line 136
ReturnWithoutSave ==
    /\ pc = "save"
    /\ Ends("done")
    /\ UNCHANGED <<fs, args, conf, durations_folder, locals, writer, run, prev>>

\* line 136: save_pkl(conf, save_opt), and the return
SavePkl ==
    /\ pc = "save"
    /\ LET save_opt == Join(args.save_folder, OPT_FILE) IN
       fs' = WriteFile(save_opt, PklFile(conf))
    /\ run' = [run EXCEPT !.writes = @ + 1]
    /\ Ends("done")
    /\ UNCHANGED <<args, conf, durations_folder, locals, writer, prev>>

\* the process of a call ends: its locals go, its files stay
Exit ==
    /\ pc = "returned"
    /\ prev' = IF outcome = "done" THEN conf ELSE None
    /\ pc' = "idle"
    /\ args' = None
    /\ conf' = None
    /\ durations_folder' = None
    /\ outcome' = "none"
    /\ meta_csv' = <<>>
    /\ index_for_sessions' = <<>>
    /\ session_len' = <<>>
    /\ data_split' = <<>>
    /\ i' = 0
    /\ j' = 0
    /\ run' = [fs0 |-> fs, writes |-> 0, guard |-> "none"]
    /\ UNCHANGED <<fs, writer>>

\* between two calls somebody removes a file or a folder
RemoveFile ==
    /\ pc = "idle"
    /\ \E p \in AllPaths :
          /\ PathExists(p)
          /\ fs' = WriteFile(p, Absent)
          /\ writer' = [writer EXCEPT ![p] = None]
          /\ run' = [run EXCEPT !.fs0 = fs']
    /\ prev' = None
    /\ UNCHANGED <<pc, args, conf, durations_folder, locals, outcome>>

Pipeline ==
    \/ Guard
    \/ CheckFolders
    \/ SplitSetsEnter
    \/ SplitOuter
    \/ SplitInner
    \/ PrepareTrain
    \/ PrepareValid
    \/ PrepareTest
    \/ CreateSymbolFile
    \/ SavePkl

----------------------------------------------------------------------------
(* Spec: calls one after the other on one save folder, with one catalog of *)
(* one session, files being removed between the calls.                     *)

OneSession == Catalog(<<"LJ001", "LJ001", "LJ001">>)

RunConfs ==
    {<< <<"train", "valid">>, <<2, 1>>, 1234 >>,
     << <<"valid">>, <<1>>, 1234 >>,
     << <<"valid">>, <<1>>, 4321 >>}

RunArgs ==
    {Args(DataFolder, SaveFolder, c[1], c[2], c[3], skip_prep, kwargs) :
        c \in RunConfs,
        skip_prep \in BOOLEAN,
        kwargs \in {{}, {"create_symbol_list"}}}

Init ==
    /\ fs = [p \in AllPaths |->
               IF p = Join(DataFolder, METADATA_CSV) THEN CsvFile(OneSession)
               ELSE IF p = Join(DataFolder, WAVS) THEN Directory
               ELSE Absent]
    /\ NoCall

StartRun == \E a \in RunArgs : Start(a)

Next ==
    \/ StartRun
    \/ Pipeline
    \/ Exit
    \/ RemoveFile

Spec == Init /\ [][Next]_vars

----------------------------------------------------------------------------
(* SpecSplit: one call on an empty save folder, for every catalog of up to *)
(* MaxRows rows over two sessions and every list of splits.                *)

Sessions == {"LJ001", "LJ002"}

Catalogs == {Catalog(ss) : ss \in SeqsUpTo(Sessions, MaxRows)}

\* the weights, aligned with the splits by position
RatioLists(n) == {SubSeq(r, 1, n) : r \in {<<1, 1, 1>>, <<2, 1, 1>>, <<1, 2, 1>>}}

InitSplit ==
    /\ \E csv \in Catalogs :
          fs = [p \in AllPaths |->
                  IF p = Join(DataFolder, METADATA_CSV) THEN CsvFile(csv)
                  ELSE IF p = Join(DataFolder, WAVS) THEN Directory
                  ELSE Absent]
    /\ NoCall

StartSplit ==
    \E spl \in SplitLists : \E ratio \in RatioLists(Len(spl)) :
        Start(Args(DataFolder, SaveFolder, spl, ratio, 1234, FALSE, {}))

NextSplit ==
    \/ StartSplit
    \/ Pipeline

SpecSplit == InitSplit /\ [][NextSplit]_vars

----------------------------------------------------------------------------
(* SpecSkip: one call on a save folder that holds any mix of manifests, of *)
(* persisted records and of lexicon.                                       *)

TwoRows == Catalog(<<"LJ001", "LJ001">>)

SkipSplits ==
    {<< <<"train", "valid">>, <<2, 1>> >>,
     << <<"valid", "train">>, <<1, 2>> >>,
     << <<"train", "valid", "test">>, <<1, 1, 1>> >>}

SkipArgs ==
    {Args(DataFolder, sf, sr[1], sr[2], 1234, skip_prep, kwargs) :
        sf \in SaveFolders, sr \in SkipSplits, skip_prep \in BOOLEAN,
        kwargs \in {{}, {"duration_link"}, {"create_symbol_list"}}}

\* the records a save folder may hold: those of the calls, and the same with
\* another data folder, another seed, or the weights of another call
PersistedConfs ==
    LET own == {Conf(a) : a \in SkipArgs} IN
    own \cup {[c EXCEPT !.data_folder = OtherDataFolder] : c \in own}
        \cup {[c EXCEPT !.seed = 4321] : c \in own}
        \cup {[c EXCEPT !.split_ratio = <<1, 2>>] : c \in own}

InitSkip ==
    /\ \E sf \in SaveFolders :
       \E present \in SUBSET {TRAIN_JSON, VALID_JSON, TEST_JSON, LEXICON} :
       \E opt \in {Absent} \cup {PklFile(c) : c \in PersistedConfs} :
          fs = [p \in AllPaths |->
                  IF p = Join(DataFolder, METADATA_CSV) THEN CsvFile(TwoRows)
                  ELSE IF p = Join(DataFolder, WAVS) THEN Directory
                  ELSE IF p = Join(sf, OPT_FILE) THEN opt
                  ELSE IF p = Join(sf, LEXICON) /\ LEXICON \in present
                       THEN TextFile({})
                  ELSE IF \E f \in present \ {LEXICON} : p = Join(sf, f)
                       THEN JsonFile(<<>>)
                  ELSE Absent]
    /\ NoCall

StartSkip == \E a \in SkipArgs : Start(a)

NextSkip ==
    \/ StartSkip
    \/ Pipeline

SpecSkip == InitSkip /\ [][NextSkip]_vars

----------------------------------------------------------------------------
(* Properties *)

\* split_sets has returned to prepare_ljspeech (line 120 is done)
SplitReturned ==
    /\ i > 0
    /\ pc \in {"train", "valid", "test", "symbol", "save", "returned"}

RowIndices == 0..(Len(meta_csv) - 1)

Requested(split) == split \in Range(args.splits)

ManifestPath(split) ==
    Join(args.save_folder,
         IF split = "train" THEN TRAIN_JSON
         ELSE IF split = "valid" THEN VALID_JSON ELSE TEST_JSON)

\* C1: whatever the catalog, the weights and the order of the splits, the
\* index lists split_sets returns are pairwise disjoint and hold only row
\* indices of the catalog.
C1_DisjointAndValid ==
    SplitReturned =>
        /\ \A s \in DOMAIN data_split : Range(data_split[s]) \subseteq RowIndices
        /\ \A s, t \in DOMAIN data_split :
              s # t => Range(data_split[s]) \cap Range(data_split[t]) = {}

\* C2: when train is requested, each session group formed by split_sets gives
\* train exactly floor(group_size * train_ratio / sum(split_ratio)) of its
\* indices, whatever the shuffles did and wherever train stands in splits.
C2_TrainCount ==
    (SplitReturned /\ Requested("train")) =>
        LET groups == GroupSessions(meta_csv)
            at == CHOOSE k \in DOMAIN args.splits : args.splits[k] = "train"
            weight == args.split_ratio[at]
            total == Sum(args.split_ratio)
        IN  \A g \in DOMAIN groups :
              LET n == Cardinality({k \in DOMAIN data_split["train"] :
                           data_split["train"][k] \in Range(groups[g])})
              IN  /\ n * total <= Len(groups[g]) * weight
                  /\ Len(groups[g]) * weight < (n + 1) * total

C2_Witness ==
    /\ SplitReturned
    /\ Requested("train")
    /\ args.splits[1] # "train"
    /\ Len(GroupSessions(meta_csv)) = 2
    /\ \E g \in 1..2 : Len(GroupSessions(meta_csv)[g]) = 2
    /\ Len(data_split["train"]) = 1

\* C6: with splits [train, valid] or [train, valid, test] every row index of
\* the catalog is in exactly one of the returned lists.
C6_Coverage ==
    (SplitReturned /\ args.splits \in {<<"train", "valid">>,
                                       <<"train", "valid", "test">>}) =>
        \A r \in RowIndices :
            Cardinality({<<s, k>> \in UNION {{s} \X DOMAIN data_split[s] :
                                               s \in DOMAIN data_split} :
                            data_split[s][k] = r}) = 1

\* the maximal runs of rows that share a session prefix, in file order
SessionAt(r) == SessionOf(meta_csv[r + 1][1])
RunStarts == {r \in RowIndices : r = 0 \/ SessionAt(r) # SessionAt(r - 1)}
RunEnd(a) ==
    CHOOSE b \in RowIndices :
        /\ b >= a
        /\ \A r \in a..b : r \notin RunStarts \/ r = a
        /\ b + 1 \in RunStarts \/ b = Len(meta_csv) - 1
MaximalRuns == {[m \in 1..(RunEnd(a) - a + 1) |-> a + m - 1] : a \in RunStarts}

\* C9: the grouping loop yields one non-empty group per maximal run of rows
\* with the same session prefix, in file order, the last run included, so
\* that every row index is in exactly one group.
C9_Groups ==
    (pc = "outer" /\ i = 1) =>
        /\ Range(index_for_sessions) = MaximalRuns
        /\ Len(index_for_sessions) = Cardinality(MaximalRuns)
        /\ \A g \in 1..(Len(index_for_sessions) - 1) :
              index_for_sessions[g][1] < index_for_sessions[g + 1][1]

\* the files of the save folder of the call, as the call found them
Found(f) == run.fs0[Join(args.save_folder, f)]
Now(f) == fs[Join(args.save_folder, f)]

\* C3: a call that follows a completed call with the same data_folder,
\* save_folder, splits, split_ratio and seed, no file having changed in
\* between, is skipped by the guard: it writes nothing and leaves every file
\* as the first call left it.
C3_SecondRunSkipped ==
    (pc = "returned" /\ ~args.skip_prep /\ prev = Conf(args)) =>
        /\ outcome = "skipped"
        /\ run.writes = 0
        /\ fs = run.fs0

C3_Witness ==
    /\ pc = "returned"
    /\ ~args.skip_prep
    /\ prev = Conf(args)
    /\ outcome = "skipped"
    /\ Requested("train")
    /\ Len(Now(TRAIN_JSON).json) = 2
    /\ Len(Now(VALID_JSON).json) = 1

\* C4: the guard returns true exactly when the manifest of every requested
\* split is in the save folder and a persisted record is there whose five
\* fields equal those of conf; when it returns false and the call completes,
\* the call has written every requested manifest and the record is conf.
C4_GuardIff ==
    (run.guard # "none") =>
        LET opt == Found(OPT_FILE) IN
        /\ run.guard = "skip" <=>
              /\ \A s \in Range(args.splits) :
                    run.fs0[ManifestPath(s)].kind = "json"
              /\ opt.kind = "pkl"
              /\ opt.kind = "pkl" =>
                    /\ opt.obj.data_folder = args.data_folder
                    /\ opt.obj.splits = args.splits
                    /\ opt.obj.split_ratio = args.split_ratio
                    /\ opt.obj.save_folder = args.save_folder
                    /\ opt.obj.seed = args.seed
        /\ (run.guard = "proceed" /\ outcome = "done") =>
              /\ \A s \in Range(args.splits) : writer[ManifestPath(s)] = conf
              /\ Now(OPT_FILE) = PklFile(Conf(args))

\* the record found has the splits and the weights of conf in another order
C4_Witness ==
    /\ run.guard = "proceed"
    /\ outcome = "done"
    /\ args.splits = <<"train", "valid">>
    /\ \A s \in Range(args.splits) : run.fs0[ManifestPath(s)].kind = "json"
    /\ Found(OPT_FILE) = PklFile([Conf(args) EXCEPT !.splits = <<"valid", "train">>,
                                                    !.split_ratio = <<1, 2>>])

\* C5: whatever the save folder, every entry of train.json has segment true
\* and every entry of valid.json and of test.json has segment false.
C5_SegmentIffTrain ==
    \A sf \in SaveFolders : \A f \in {TRAIN_JSON, VALID_JSON, TEST_JSON} :
        LET file == fs[Join(sf, f)] IN
        file.kind = "json" =>
            \A k \in DOMAIN file.json : file.json[k].segment = (f = TRAIN_JSON)

\* the distinct characters of the lowercased labels of a manifest
LabelSymbols(json) ==
    {LowerChar(json[k].label[m]) : <<k, m>> \in
        UNION {{k} \X DOMAIN json[k].label : k \in DOMAIN json}}

SymbolFileAsked ==
    /\ pc = "returned"
    /\ ~args.skip_prep
    /\ "create_symbol_list" \in args.kwargs
    /\ Found(LEXICON).kind = "none"

\* C7: a call that asks for the symbol file and finds no lexicon in the save
\* folder, when it returns normally, has left a lexicon whose symbols are the
\* distinct characters of the lowercased labels of the training manifest it
\* wrote.
C7_LexiconWritten ==
    (SymbolFileAsked /\ outcome \in {"done", "skipped"}) =>
        /\ Now(LEXICON).kind = "text"
        /\ run.guard = "proceed" /\ Requested("train")
        /\ Now(LEXICON).symbols = LabelSymbols(Now(TRAIN_JSON).json)

\* C7, for the calls the guard does not skip: a call that asks for the symbol
\* file, finds no lexicon, passes the guard and has train among its splits
\* returns only after save_pkl, with a lexicon whose symbols are the distinct
\* characters of the lowercased labels of the train.json it wrote.
C7_LexiconWrittenUnlessSkipped ==
    (SymbolFileAsked /\ outcome \in {"done", "skipped"}
        /\ run.guard = "proceed" /\ Requested("train")) =>
        /\ outcome = "done"
        /\ Now(LEXICON).kind = "text"
        /\ writer[ManifestPath("train")] = conf
        /\ Now(LEXICON).symbols = LabelSymbols(Now(TRAIN_JSON).json)

C7_Witness ==
    /\ SymbolFileAsked
    /\ outcome = "done"
    /\ run.guard = "proceed"
    /\ Requested("train")
    /\ Now(LEXICON) = TextFile({"h", "e", "l", "o", "w", "r", "d"})

\* C8: a call that passes the guard while metadata.csv or the wavs folder is
\* absent ends in the assertion error before split_sets is entered, having
\* written no file and left every file of the save folder as it was.
C8_FailsFast ==
    (/\ run.guard = "proceed"
     /\ \/ run.fs0[Join(args.data_folder, METADATA_CSV)].kind = "none"
        \/ run.fs0[Join(args.data_folder, WAVS)].kind = "none") =>
        /\ pc = "check" \/ (pc = "returned" /\ outcome = "AssertionError")
        /\ i = 0
        /\ run.writes = 0
        /\ \A f \in SaveFiles : Now(f) = Found(f)

C8_Witness ==
    /\ run.guard = "proceed"
    /\ pc = "returned"
    /\ outcome = "AssertionError"
    /\ run.fs0[Join(args.data_folder, WAVS)].kind = "none"
    /\ fs[Join(args.data_folder, WAVS)].kind = "none"
    /\ fs[Join(args.data_folder, METADATA_CSV)].kind = "csv"
    /\ Now(VALID_JSON).kind = "json"
    /\ Now(OPT_FILE).kind = "pkl"

\* C10: whenever the guard skips a call, the manifest of every requested split
\* was written by a call whose conf equals the conf of the skipped call.
C10_RecordVouches ==
    (pc = "returned" /\ outcome = "skipped") =>
        \A s \in Range(args.splits) : writer[ManifestPath(s)] = conf

====
